---- MODULE Spec2Model ----
(***************************************************************************)
(* Model of DataTableCore (Data/DataTableCore.ts): a columnar table whose  *)
(* columns are JavaScript arrays.  A JavaScript array is modelled by its   *)
(* indexed cells (a sequence, holes and undefined both read as Absent) and *)
(* by the properties stored under negative keys, which an assignment       *)
(* column[-1] = v creates without touching the length.  Columns are plain *)
(* arrays, as DataTableCore.Column declares them.                          *)
(*                                                                         *)
(* The caller is part of the state: call, pre, events, thrown and result   *)
(* hold what the caller sees of the call that has just ended (pc =         *)
(* "called"), and Return drops them before the next call.                  *)
(*                                                                         *)
(* Sync (Dashboards/Components/Sync/Sync.ts) and EditToolbar               *)
(* (Dashboard/EditMode/Toolbar/EditToolbar.ts) are modelled beside it,     *)
(* each with its own state, caller and specification (SyncSpec,            *)
(* ToolbarSpec); the state of the other two components stays as it was     *)
(* constructed.                                                            *)
(***************************************************************************)
EXTENDS Integers, Sequences, FiniteSets, TLC

(* ------------------------------ bounds -------------------------------- *)

\* Largest row index a caller passes.
MaxIndex == 1

\* Largest length of a column handed to the constructor or to setColumns.
MaxLen == 1

\* Largest number of calls made on one table after its construction.
MaxCalls == 2

(* --------------------------- value domains ---------------------------- *)

Names == {"a", "b"}

\* The cell values of the columns a caller supplies.
ColumnValues == {1, 2}

\* The cell value a caller's row object holds for a column.
RowValue(name) == IF name = "a" THEN 3 ELSE 4

Values == ColumnValues \cup {RowValue(name) : name \in Names}

\* undefined, and the value read from a hole of a sparse array.
Absent == 0

Cell == Values \cup {Absent}

\* An omitted optional argument.
Undefined == 0 - 1000

\* Row indexes the callers pass: below the table, inside it, beyond it.
RowIndexes == (0 - 2)..MaxIndex

\* The negative keys among them.
NegIndexes == {i \in RowIndexes : i < 0}

Min(x, y) == IF x < y THEN x ELSE y

Max(x, y) == IF x > y THEN x ELSE y

(* ------------------------- JavaScript arrays -------------------------- *)

NoProps == [i \in NegIndexes |-> Absent]

\* An array literal with the given elements.
ArrayOf(s) == [cells |-> s, props |-> NoProps]

\* new Array(n) for 0 <= n: n holes.
NewArray(n) == ArrayOf([i \in 1..n |-> Absent])

\* new Array(n) throws a RangeError for a negative length.
NewArrayThrows(n) == n < 0

\* column.slice(): a copy of the indexed elements only.
Slice(col) == ArrayOf(col.cells)

\* column.length = n: truncates, or pads with holes.
SetLength(col, n) ==
    [col EXCEPT !.cells =
        [i \in 1..n |-> IF i <= Len(col.cells) THEN col.cells[i] ELSE Absent]]

\* column[idx] = v.
SetIndex(col, idx, v) ==
    IF idx < 0
    THEN [col EXCEPT !.props[idx] = v]
    ELSE [col EXCEPT !.cells =
            [i \in 1..Max(Len(col.cells), idx + 1) |->
                IF i = idx + 1 THEN v
                ELSE IF i <= Len(col.cells) THEN col.cells[i]
                ELSE Absent]]

\* column[idx].
GetIndex(col, idx) ==
    IF idx < 0 THEN col.props[idx]
    ELSE IF idx < Len(col.cells) THEN col.cells[idx + 1]
    ELSE Absent

\* The position Array.prototype.splice starts at.
SpliceStart(len, start) ==
    IF start < 0 THEN Max(len + start, 0) ELSE Min(start, len)

\* column.splice(start, 0, v).
Splice(col, start, v) ==
    LET len == Len(col.cells)
        s == SpliceStart(len, start)
    IN  [col EXCEPT !.cells =
            SubSeq(col.cells, 1, s) \o <<v>> \o SubSeq(col.cells, s + 1, len)]

(* ------------------------------- inputs ------------------------------- *)

\* Sequences over S of length at most n.
SeqUpTo(S, n) == UNION {[1..k -> S] : k \in 0..n}

\* The columns a caller supplies: neighbouring cells differ, so that a cell
\* that moved is told from one that stayed.
InputColumns == {[i \in 1..k |-> IF i % 2 = 1 THEN 1 ELSE 2] : k \in 0..MaxLen}

\* An object literal: its entries in key order, no key twice.
Objects(V) ==
    {o \in SeqUpTo([name : Names, value : V], Cardinality(Names)) :
        \A i, j \in 1..Len(o) : i # j => o[i].name # o[j].name}

\* DataTable.ColumnCollection
Collections == Objects(InputColumns)

\* The column options handed to the constructor: full columns.
InitOptions ==
    {o \in Collections : \A i \in 1..Len(o) : Len(o[i].value) = MaxLen}

\* DataTable.RowObject
RowObjects == {o \in Objects(Values) :
                \A i \in 1..Len(o) : o[i].value = RowValue(o[i].name)}

\* Lists of column names, no name twice.
NameLists ==
    {l \in SeqUpTo(Names, Cardinality(Names)) :
        \A i, j \in 1..Len(l) : i # j => l[i] # l[j]}

(* -------------------------------- state ------------------------------- *)

VARIABLES
    columns,     \* this.columns: a function from the names set so far to arrays
    columnKeys,  \* Object.keys(this.columns), in insertion order
    rowCount,    \* this.rowCount
    versionTag,  \* this.versionTag
    idCounter,   \* the counter behind uniqueKey()
    call,        \* the last call and its arguments
    pre,         \* the table as it was when the last call began
    events,      \* the events the last call fired, with the tag the listener saw
    thrown,      \* the error the last call ended in, or "none"
    result,      \* what the last call returned
    calls,       \* the number of calls made so far
    pc           \* the caller: "idle" between calls, "called" when a call has ended

VARIABLES
    syncConfig,             \* this.syncConfig, its entries in key order
    defaultHandlers,        \* Sync.defaultHandlers
    registeredSyncHandlers, \* this.registeredSyncHandlers: id -> handler
    registeredSyncEmitters, \* this.registeredSyncEmitters: id -> emitter
    isSyncing,              \* this.isSyncing
    attached,     \* the instances attached to the component: created, not removed
    instances,    \* the number of handlers and emitters constructed so far
    syncCall,     \* the last call on the Sync and its arguments
    syncPre,      \* the Sync as it was when the last call began
    syncLog,      \* what the last call did to handlers and emitters, in order
    syncThrown,   \* the error the last call ended in, or "none"
    syncCalls,    \* the number of calls made on the Sync so far
    syncPc        \* the caller of the Sync: "idle" or "called"

syncVars == <<syncConfig, defaultHandlers, registeredSyncHandlers,
              registeredSyncEmitters, isSyncing, attached, instances,
              syncCall, syncPre, syncLog, syncThrown, syncCalls, syncPc>>

VARIABLES
    classList,    \* document: the marker classes each element carries
    cleanStart,   \* the document carried no marker class at first
    position,     \* per toolbar: container.style.left and top, and isVisible
    toolbarCall,  \* the last call on a toolbar and its arguments
    toolbarPre,   \* the document and the toolbars when the last call began
    toolbarPc     \* the caller of the toolbars: "idle" or "called"

toolbarVars == <<classList, cleanStart, position,
                 toolbarCall, toolbarPre, toolbarPc>>

tableVars == <<columns, columnKeys, rowCount, versionTag, idCounter,
               call, pre, events, thrown, result, calls, pc>>

vars == <<tableVars, syncVars, toolbarVars>>

table == <<columns, columnKeys, rowCount, versionTag, idCounter>>

\* The table fields a call may change.
Snapshot == [columns |-> columns, columnKeys |-> columnKeys,
             rowCount |-> rowCount, versionTag |-> versionTag]

\* No column at all: this.columns = {}.
NoColumns == [name \in {} |-> ArrayOf(<<>>)]

\* The caller's view between two calls.
NoCall == [op |-> "none"]

NoSnapshot == [columns |-> NoColumns, columnKeys |-> <<>>,
               rowCount |-> 0, versionTag |-> 0]

\* An empty registry of handlers or emitters: {}.
NoRegistry == [id \in {} |-> [id |-> "", n |-> 0]]

NoSyncSnapshot == [handlers |-> NoRegistry, emitters |-> NoRegistry,
                   isSyncing |-> FALSE, attached |-> {}]

\* A Sync nobody configured or called.
SyncAtRest ==
    /\ syncConfig = <<>>
    /\ defaultHandlers = <<>>
    /\ registeredSyncHandlers = NoRegistry
    /\ registeredSyncEmitters = NoRegistry
    /\ isSyncing = FALSE
    /\ attached = {}
    /\ instances = 0
    /\ syncCall = NoCall
    /\ syncPre = NoSyncSnapshot
    /\ syncLog = {}
    /\ syncThrown = "none"
    /\ syncCalls = 0
    /\ syncPc = "idle"

\* The dashboards of the page and the toolbars made for them.
Dashboards == {1, 2}

Toolbars == {1, 2}

\* The elements of the document the marker classes are put on: the container
\* of each dashboard, and a row and a cell of its layout.
Elements == [dashboard : Dashboards, tag : {"container", "row", "cell"}]

\* No element carries a class.
NoClasses == [e \in Elements |-> {}]

\* container.style.left and top before the first css() call.
Auto == 0 - 1001

\* A toolbar as its constructor leaves it.
Constructed == [left |-> Auto, top |-> Auto, isVisible |-> FALSE]

NoToolbarSnapshot ==
    [classList |-> NoClasses, position |-> [t \in Toolbars |-> Constructed]]

\* A page nobody marked, with toolbars nobody called.
ToolbarAtRest ==
    /\ classList = NoClasses
    /\ cleanStart = TRUE
    /\ position = [t \in Toolbars |-> Constructed]
    /\ toolbarCall = NoCall
    /\ toolbarPre = NoToolbarSnapshot
    /\ toolbarPc = "idle"

\* The caller starts a call.
Enter ==
    /\ pc = "idle"
    /\ calls < MaxCalls
    /\ pc' = "called"
    /\ calls' = calls + 1
    /\ pre' = Snapshot
    /\ UNCHANGED <<syncVars, toolbarVars>>

\* this.columns[name] is set.
Has(cols, name) == name \in DOMAIN cols

\* this.columns[name] = column
Put(cols, name, column) ==
    [n \in DOMAIN cols \cup {name} |-> IF n = name THEN column ELSE cols[n]]

\* this.columns[name]?.[idx]
CellAt(cols, name, idx) ==
    IF Has(cols, name) THEN GetIndex(cols[name], idx) ELSE Absent

\* Object.keys after this.columns[name] = ...
AddKey(keys, name) ==
    IF \E i \in 1..Len(keys) : keys[i] = name THEN keys ELSE Append(keys, name)

(* ------------------------------ operations ---------------------------- *)

\* applyRowCount: the columns after every array got length n.
applyRowCount(cols, n) ==
    [name \in DOMAIN cols |-> SetLength(cols[name], n)]

\* The objectEach loop of the constructor: stores a copy of every column and
\* tracks the largest length.
RECURSIVE ConstructColumns(_, _)
ConstructColumns(st, entries) ==
    IF entries = <<>> THEN st
    ELSE LET e == Head(entries)
         IN  ConstructColumns(
                [columns |-> Put(st.columns, e.name, Slice(ArrayOf(e.value))),
                 columnKeys |-> AddKey(st.columnKeys, e.name),
                 rowCount |-> Max(st.rowCount, Len(e.value))],
                Tail(entries))

\* The objectEach loop of setColumns: stores a copy of every column and
\* takes the length of the column it visits as the row count.
RECURSIVE StoreColumns(_, _)
StoreColumns(st, entries) ==
    IF entries = <<>> THEN st
    ELSE LET e == Head(entries)
         IN  StoreColumns(
                [columns |-> Put(st.columns, e.name, Slice(ArrayOf(e.value))),
                 columnKeys |-> AddKey(st.columnKeys, e.name),
                 rowCount |-> Len(e.value)],
                Tail(entries))

\* The objectEach loop of setRow.  It stops at the first column it cannot
\* create, leaving the cells written so far in place.
RECURSIVE WriteCells(_, _, _, _, _)
WriteCells(st, entries, rowIndex, insert, indexRowCount) ==
    IF entries = <<>> \/ st.thrown # "none" THEN st
    ELSE LET e == Head(entries)
             missing == ~Has(st.columns, e.name)
         IN  IF missing /\ NewArrayThrows(indexRowCount)
             THEN [st EXCEPT !.thrown = "RangeError"]
             ELSE LET column == IF missing THEN NewArray(indexRowCount)
                                ELSE st.columns[e.name]
                      written == IF insert THEN Splice(column, rowIndex, e.value)
                                 ELSE SetIndex(column, rowIndex, e.value)
                  IN  WriteCells(
                        [columns |-> Put(st.columns, e.name, written),
                         columnKeys |-> AddKey(st.columnKeys, e.name),
                         thrown |-> "none"],
                        Tail(entries), rowIndex, insert, indexRowCount)

\* uniqueKey(): the key made from the counter.
UniqueKey(counter) == counter

\* fireEvent(this, type): the listeners run now and see the table as it is.
FireEvent(type, tag) == <<[type |-> type, tag |-> tag]>>

\* Faulty variant of Notify: the silent flag is ignored.
NotifyAlways(type, silent) ==
    /\ events' = FireEvent(type, versionTag)
    /\ versionTag' = UniqueKey(idCounter)
    /\ idCounter' = idCounter + 1

\* if (!eventDetail?.silent) { fireEvent(...); this.versionTag = uniqueKey(); }
Notify(type, silent) ==
    IF silent
    THEN /\ events' = <<>>
         /\ UNCHANGED <<versionTag, idCounter>>
    ELSE /\ events' = FireEvent(type, versionTag)
         /\ versionTag' = UniqueKey(idCounter)
         /\ idCounter' = idCounter + 1

\* Faulty variant of DefaultRowIndex: an omitted index means the last row.
DefaultRowIndexLast(index, count) ==
    IF index = Undefined THEN Max(count - 1, 0) ELSE index

\* rowIndex: number = this.rowCount
DefaultRowIndex(index, count) == IF index = Undefined THEN count ELSE index

\* Faulty variant of IndexRowCount: the row count of an overwrite is the
\* index itself.
IndexRowCountShort(insert, count, rowIndex) ==
    IF insert THEN count + 1 ELSE rowIndex

\* indexRowCount = insert ? this.rowCount + 1 : rowIndex + 1
IndexRowCount(insert, count, rowIndex) ==
    IF insert THEN count + 1 ELSE rowIndex + 1

\* new DataTableCore({ columns })
Init ==
    \E options \in InitOptions :
        LET st == ConstructColumns(
                    [columns |-> NoColumns,
                     columnKeys |-> <<>>, rowCount |-> 0], options)
        IN  /\ columns = applyRowCount(st.columns, st.rowCount)
            /\ columnKeys = st.columnKeys
            /\ rowCount = st.rowCount
            /\ versionTag = UniqueKey(0)
            /\ idCounter = 1
            /\ call = [op |-> "constructor", options |-> options]
            /\ pre = NoSnapshot
            /\ pc = "called"
            /\ events = <<>>
            /\ thrown = "none"
            /\ result = <<>>
            /\ calls = 0
            /\ SyncAtRest
            /\ ToolbarAtRest

\* The body shared by setColumns and setColumn.
SetColumnsBody(collection, silent) ==
    LET st == StoreColumns(
                [columns |-> columns, columnKeys |-> columnKeys,
                 rowCount |-> rowCount], collection)
    IN  /\ columns' = applyRowCount(st.columns, st.rowCount)
        /\ columnKeys' = st.columnKeys
        /\ rowCount' = st.rowCount
        /\ Notify("afterSetColumns", silent)
        /\ thrown' = "none"
        /\ result' = <<>>

\* setColumns(collection, rowIndex, { silent })
setColumns ==
    \E collection \in Collections, rowIndex \in {Undefined, 1},
       silent \in BOOLEAN :
        /\ Enter
        /\ call' = [op |-> "setColumns", collection |-> collection,
                    rowIndex |-> rowIndex, silent |-> silent]
        /\ SetColumnsBody(collection, silent)

\* setColumn(name, column, rowIndex, { silent })
setColumn ==
    \E name \in Names, column \in InputColumns, rowIndex \in {0, 1},
       silent \in BOOLEAN :
        /\ Enter
        /\ call' = [op |-> "setColumn",
                    collection |-> <<[name |-> name, value |-> column]>>,
                    rowIndex |-> rowIndex, silent |-> silent]
        /\ SetColumnsBody(<<[name |-> name, value |-> column]>>, silent)

\* setRow(row, rowIndex, insert, { silent })
setRow ==
    \E row \in RowObjects, index \in RowIndexes \cup {Undefined},
       insert \in BOOLEAN, silent \in BOOLEAN :
        LET rowIndex == DefaultRowIndex(index, rowCount)
            indexRowCount == IndexRowCount(insert, rowCount, rowIndex)
            st == WriteCells(
                    [columns |-> columns, columnKeys |-> columnKeys,
                     thrown |-> "none"],
                    row, rowIndex, insert, indexRowCount)
        IN  /\ Enter
            /\ calls' = calls + 1
            /\ call' = [op |-> "setRow", row |-> row, index |-> index,
                        rowIndex |-> rowIndex, insert |-> insert,
                        silent |-> silent]
                /\ result' = <<>>
            /\ columnKeys' = st.columnKeys
            /\ thrown' = st.thrown
            /\ IF st.thrown # "none"
               THEN /\ columns' = st.columns
                    /\ events' = <<>>
                    /\ UNCHANGED <<rowCount, versionTag, idCounter>>
               ELSE /\ IF indexRowCount > rowCount
                       THEN /\ columns' = applyRowCount(st.columns, indexRowCount)
                            /\ rowCount' = indexRowCount
                       ELSE /\ columns' = st.columns
                            /\ UNCHANGED rowCount
                    /\ Notify("afterSetRows", silent)

\* getRow(rowIndex, columnNames)
getRow ==
    \E rowIndex \in RowIndexes, columnNames \in NameLists, given \in BOOLEAN :
        LET names == IF given THEN columnNames ELSE columnKeys
        IN  /\ given \/ columnNames = <<>>
            /\ Enter
            /\ call' = [op |-> "getRow", rowIndex |-> rowIndex,
                        given |-> given, columnNames |-> columnNames]
            /\ result' = [i \in 1..Len(names) |->
                            CellAt(columns, names[i], rowIndex)]
                /\ events' = <<>>
            /\ thrown' = "none"
            /\ UNCHANGED table

\* getColumn(columnName)
getColumn ==
    \E columnName \in Names :
        /\ Enter
        /\ call' = [op |-> "getColumn", columnName |-> columnName]
        /\ result' = IF Has(columns, columnName)
                      THEN <<columns[columnName]>> ELSE <<>>
        /\ events' = <<>>
        /\ thrown' = "none"
        /\ UNCHANGED table

\* getColumns(columnNames)
getColumns ==
    \E columnNames \in NameLists, given \in BOOLEAN :
        LET names == IF given THEN columnNames ELSE columnKeys
        IN  /\ given \/ columnNames = <<>>
            /\ Enter
            /\ call' = [op |-> "getColumns", given |-> given,
                        columnNames |-> columnNames]
            /\ result' = [i \in 1..Len(names) |->
                            [name |-> names[i],
                             value |-> IF Has(columns, names[i])
                                       THEN <<columns[names[i]]>> ELSE <<>>]]
                /\ events' = <<>>
            /\ thrown' = "none"
            /\ UNCHANGED table

\* The call is over: the caller drops what it knew about it.
Return ==
    /\ pc = "called"
    /\ pc' = "idle"
    /\ call' = NoCall
    /\ pre' = NoSnapshot
    /\ events' = <<>>
    /\ thrown' = "none"
    /\ result' = <<>>
    /\ UNCHANGED <<table, calls, syncVars, toolbarVars>>

Next ==
    \/ setColumns
    \/ setColumn
    \/ setRow
    \/ getRow
    \/ getColumn
    \/ getColumns
    \/ Return

Spec == Init /\ [][Next]_vars

\* A table nobody filled or called.
TableAtRest ==
    /\ columns = NoColumns
    /\ columnKeys = <<>>
    /\ rowCount = 0
    /\ versionTag = UniqueKey(0)
    /\ idCounter = 1
    /\ call = NoCall
    /\ pre = NoSnapshot
    /\ events = <<>>
    /\ thrown = "none"
    /\ result = <<>>
    /\ calls = 0
    /\ pc = "idle"

(* -------------------------------- Sync -------------------------------- *)

\* Largest number of calls made on one Sync after its construction.
MaxSyncCalls == 3

\* The event identifiers of the configuration, which are also the identifiers
\* handlers and emitters are given.
SyncIds == {"x", "y"}

\* A handler or emitter value of an options entry: false, null or absent ...
Disabled == [type |-> "falsy", id |-> ""]

\* ... or true ...
UseDefault == [type |-> "boolean", id |-> ""]

\* ... or a configuration tuple, of which only the leading id matters here.
Tuple(id) == [type |-> "tuple", id |-> id]

HalfConfigs == {Disabled, UseDefault} \cup {Tuple(id) : id \in SyncIds}

\* Sync.OptionsEntry
OptionsEntries == [emitter : HalfConfigs, handler : HalfConfigs]

\* Sync.OptionsRecord: the entries in key order, here "x" before "y".
OptionsRecords ==
    {o \in SeqUpTo([id : SyncIds, entry : OptionsEntries], Cardinality(SyncIds)) :
        /\ \A i, j \in 1..Len(o) : i # j => o[i].id # o[j].id
        /\ Len(o) = 2 => o[1].id = "x"}

\* The entry other components put into Sync.defaultHandlers: the identifiers
\* share one default handler and one default emitter, both with the id "x".
DefaultEntry == [emitter |-> Tuple("x"), handler |-> Tuple("x")]

\* The states of Sync.defaultHandlers: the entry for some of the identifiers.
DefaultTables == {[key \in keys |-> DefaultEntry] : keys \in SUBSET SyncIds}

\* The handler or the emitter value of an entry.
Half(entry, kind) == IF kind = "handler" THEN entry.handler ELSE entry.emitter

\* Faulty variant of Resolve: true stands for a tuple that carries the key of
\* the entry.
ResolveOwnKey(half, key, kind, defaults) ==
    IF half.type = "boolean" THEN Tuple(key) ELSE half

\* if (typeof handlerConfig === 'boolean') {
\*     handlerConfig = Sync.defaultHandlers[id].handler; }
Resolve(half, key, kind, defaults) ==
    IF half.type = "boolean" THEN Half(defaults[key], kind) ELSE half

\* Sync.defaultHandlers[id].handler can be read and spread: reading a member
\* of a missing entry, or spreading what is not a tuple, is a TypeError.
CanResolve(half, key, kind, defaults) ==
    \/ half.type = "tuple"
    \/ /\ key \in DOMAIN defaults
       /\ Half(defaults[key], kind).type = "tuple"

\* new SyncHandler(...handlerConfig) or new SyncEmitter(...emitterConfig): the
\* n-th instance made, carrying the leading element of the tuple as its id.
NewInstance(kind, id, n) == [kind |-> kind, id |-> id, n |-> n]

\* What a call did with an instance: "new", "register", "create" or "remove";
\* key is the configuration entry at work, "" outside start().
Event(event, key, instance) ==
    [event |-> event, key |-> key, instance |-> instance]

\* handler.create(component), emitter.create(component): attaches the instance.
create(attachedNow, instance) == attachedNow \cup {instance}

\* handler.remove(), emitter.remove(): detaches the instance.
remove(attachedNow, instance) == attachedNow \ {instance}

\* Faulty variants of isRegisteredHandler and isRegisteredEmitter: nothing
\* counts as registered.
isRegisteredHandlerNever(handlers, handlerID) == FALSE

isRegisteredEmitterNever(emitters, id) == FALSE

\* Boolean(this.registeredSyncHandlers[handlerID])
isRegisteredHandler(handlers, handlerID) == handlerID \in DOMAIN handlers

\* Boolean(this.registeredSyncEmitters[id])
isRegisteredEmitter(emitters, id) == id \in DOMAIN emitters

\* this.registeredSyncHandlers[id] = handler
registerSyncHandler(handlers, handler) ==
    [id \in DOMAIN handlers \cup {handler.id} |->
        IF id = handler.id THEN handler ELSE handlers[id]]

\* this.registeredSyncEmitters[id] = emitter
registerSyncEmitter(emitters, emitter) ==
    [id \in DOMAIN emitters \cup {emitter.id} |->
        IF id = emitter.id THEN emitter ELSE emitters[id]]

\* if (handlerConfig) { ... } of start().
AttachHandler(st, key, handlerConfig, defaults) ==
    IF handlerConfig.type = "falsy" THEN st
    ELSE IF ~CanResolve(handlerConfig, key, "handler", defaults)
    THEN [st EXCEPT !.thrown = "TypeError"]
    ELSE LET config == Resolve(handlerConfig, key, "handler", defaults)
             handler == NewInstance("handler", config.id, st.instances + 1)
             made == [st EXCEPT !.instances = @ + 1,
                                !.log = @ \cup {Event("new", key, handler)}]
         IN  IF isRegisteredHandler(made.handlers, handler.id) THEN made
             ELSE [made EXCEPT
                    !.handlers = registerSyncHandler(@, handler),
                    !.attached = create(@, handler),
                    !.log = @ \cup {Event("register", key, handler),
                                    Event("create", key, handler)}]

\* if (emitterConfig) { ... } of start().
AttachEmitter(st, key, emitterConfig, defaults) ==
    IF emitterConfig.type = "falsy" THEN st
    ELSE IF ~CanResolve(emitterConfig, key, "emitter", defaults)
    THEN [st EXCEPT !.thrown = "TypeError"]
    ELSE LET config == Resolve(emitterConfig, key, "emitter", defaults)
             emitter == NewInstance("emitter", config.id, st.instances + 1)
             made == [st EXCEPT !.instances = @ + 1,
                                !.log = @ \cup {Event("new", key, emitter)}]
         IN  IF isRegisteredEmitter(made.emitters, emitter.id) THEN made
             ELSE [made EXCEPT
                    !.emitters = registerSyncEmitter(@, emitter),
                    !.attached = create(@, emitter),
                    !.log = @ \cup {Event("register", key, emitter),
                                    Event("create", key, emitter)}]

\* Object.keys(syncConfig).forEach(...) of start(): the handler, then the
\* emitter of every entry, until one of them throws.
RECURSIVE StartEntries(_, _, _)
StartEntries(st, config, defaults) ==
    IF config = <<>> \/ st.thrown # "none" THEN st
    ELSE LET e == Head(config)
             withHandler == AttachHandler(st, e.id, e.entry.handler, defaults)
             withBoth == IF withHandler.thrown # "none" THEN withHandler
                         ELSE AttachEmitter(withHandler, e.id,
                                            e.entry.emitter, defaults)
         IN  StartEntries(withBoth, Tail(config), defaults)

\* Faulty variant of DeleteKey: the entry stays.
DeleteKeyNot(registry, id) == registry

\* delete registeredSyncHandlers[id]
DeleteKey(registry, id) == [i \in DOMAIN registry \ {id} |-> registry[i]]

\* Object.keys(registry).forEach(...) of stop(): every instance found under
\* one of the keys is removed and its entry deleted.
RECURSIVE StopEach(_, _)
StopEach(st, keys) ==
    IF keys = {} THEN st
    ELSE LET id == CHOOSE k \in keys : TRUE
             instance == st.registry[id]
         IN  StopEach(
                [registry |-> DeleteKey(st.registry, id),
                 attached |-> remove(st.attached, instance),
                 log |-> st.log \cup {Event("remove", "", instance)}],
                keys \ {id})

\* The instances a registry holds.
Registered(registry) == {registry[id] : id \in DOMAIN registry}

\* The fields of the Sync a call may change.
SyncSnapshot == [handlers |-> registeredSyncHandlers,
                 emitters |-> registeredSyncEmitters,
                 isSyncing |-> isSyncing, attached |-> attached]

\* The caller starts a call on the Sync.
SyncEnter ==
    /\ syncPc = "idle"
    /\ syncCalls < MaxSyncCalls
    /\ syncPc' = "called"
    /\ syncCalls' = syncCalls + 1
    /\ syncPre' = SyncSnapshot
    /\ UNCHANGED <<syncConfig, defaultHandlers, tableVars, toolbarVars>>

\* new Sync(component, syncHandlers), with Sync.defaultHandlers as the
\* components left it.
SyncInit ==
    \E syncHandlers \in OptionsRecords, defaults \in DefaultTables :
        /\ syncConfig = syncHandlers
        /\ defaultHandlers = defaults
        /\ registeredSyncHandlers = NoRegistry
        /\ registeredSyncEmitters = NoRegistry
        /\ isSyncing = FALSE
        /\ attached = {}
        /\ instances = 0
        /\ syncCall = [op |-> "constructor"]
        /\ syncPre = NoSyncSnapshot
        /\ syncLog = {}
        /\ syncThrown = "none"
        /\ syncCalls = 0
        /\ syncPc = "called"
        /\ TableAtRest
        /\ ToolbarAtRest

\* start()
start ==
    LET st == StartEntries(
                [handlers |-> registeredSyncHandlers,
                 emitters |-> registeredSyncEmitters,
                 attached |-> attached, instances |-> instances,
                 log |-> {}, thrown |-> "none"],
                syncConfig, defaultHandlers)
    IN  /\ SyncEnter
        /\ syncCall' = [op |-> "start"]
        /\ registeredSyncHandlers' = st.handlers
        /\ registeredSyncEmitters' = st.emitters
        /\ attached' = st.attached
        /\ instances' = st.instances
        /\ syncLog' = st.log
        /\ syncThrown' = st.thrown
        /\ isSyncing' = IF st.thrown = "none" THEN TRUE ELSE isSyncing

\* stop()
stop ==
    LET handlers == StopEach(
                        [registry |-> registeredSyncHandlers,
                         attached |-> attached, log |-> {}],
                        DOMAIN registeredSyncHandlers)
        emitters == StopEach(
                        [registry |-> registeredSyncEmitters,
                         attached |-> handlers.attached, log |-> handlers.log],
                        DOMAIN registeredSyncEmitters)
    IN  /\ SyncEnter
        /\ syncCall' = [op |-> "stop"]
        /\ registeredSyncHandlers' = handlers.registry
        /\ registeredSyncEmitters' = emitters.registry
        /\ attached' = emitters.attached
        /\ syncLog' = emitters.log
        /\ syncThrown' = "none"
        /\ isSyncing' = FALSE
        /\ UNCHANGED instances

\* sync.registerSyncHandler(new SyncHandler(id, ...))
RegisterSyncHandler ==
    \E id \in SyncIds :
        LET handler == NewInstance("handler", id, instances + 1)
        IN  /\ SyncEnter
            /\ syncCall' = [op |-> "registerSyncHandler", handler |-> handler]
            /\ registeredSyncHandlers' =
                    registerSyncHandler(registeredSyncHandlers, handler)
            /\ instances' = instances + 1
            /\ syncLog' = {Event("new", "", handler),
                           Event("register", "", handler)}
            /\ syncThrown' = "none"
            /\ UNCHANGED <<registeredSyncEmitters, attached, isSyncing>>

\* sync.registerSyncEmitter(new SyncEmitter(id, ...))
RegisterSyncEmitter ==
    \E id \in SyncIds :
        LET emitter == NewInstance("emitter", id, instances + 1)
        IN  /\ SyncEnter
            /\ syncCall' = [op |-> "registerSyncEmitter", emitter |-> emitter]
            /\ registeredSyncEmitters' =
                    registerSyncEmitter(registeredSyncEmitters, emitter)
            /\ instances' = instances + 1
            /\ syncLog' = {Event("new", "", emitter),
                           Event("register", "", emitter)}
            /\ syncThrown' = "none"
            /\ UNCHANGED <<registeredSyncHandlers, attached, isSyncing>>

\* The call is over: the caller drops what it knew about it.
SyncReturn ==
    /\ syncPc = "called"
    /\ syncPc' = "idle"
    /\ syncCall' = NoCall
    /\ syncPre' = NoSyncSnapshot
    /\ syncLog' = {}
    /\ syncThrown' = "none"
    /\ UNCHANGED <<syncConfig, defaultHandlers, registeredSyncHandlers,
                   registeredSyncEmitters, isSyncing, attached, instances,
                   syncCalls, tableVars, toolbarVars>>

SyncNext ==
    \/ start
    \/ stop
    \/ RegisterSyncHandler
    \/ RegisterSyncEmitter
    \/ SyncReturn

SyncSpec == SyncInit /\ [][SyncNext]_vars

(* ----------------------------- EditToolbar ---------------------------- *)

\* Largest coordinate a caller passes to setPosition.
MaxCoordinate == 1

\* The coordinates a caller passes: omitted, zero, positive.
Coordinates == {Undefined} \cup 0..MaxCoordinate

\* '-9999': the off-screen offset.
Sentinel == 0 - 9999

\* The four marker classes, in the order resetCurrentElements lists them.
classesToRemove == <<"disabledNotEditedCells", "disabledNotEditedRows",
                     "currentEditedCell", "currentEditedRow">>

MarkerClasses == {classesToRemove[i] : i \in 1..Len(classesToRemove)}

\* The elements in document order: each dashboard's container holds its row,
\* which holds its cell.
DocumentOrder ==
    <<[dashboard |-> 1, tag |-> "container"], [dashboard |-> 1, tag |-> "row"],
      [dashboard |-> 1, tag |-> "cell"],
      [dashboard |-> 2, tag |-> "container"], [dashboard |-> 2, tag |-> "row"],
      [dashboard |-> 2, tag |-> "cell"]>>

\* The rows and cells a toolbar is asked to mark.
Editables == {e \in Elements : e.tag # "container"}

\* element.layout.dashboard.container, element.row.layout.dashboard.container
DashboardContainer(element) ==
    [dashboard |-> element.dashboard, tag |-> "container"]

\* The class a marked document puts on an element: the current-edited class of
\* its kind on a row or a cell, either disabled class on a container.
MayCarry(element) ==
    IF element.tag = "row" THEN {"currentEditedRow"}
    ELSE IF element.tag = "cell" THEN {"currentEditedCell"}
    ELSE {"disabledNotEditedCells", "disabledNotEditedRows"}

\* The documents a toolbar may find: any of the elements marked already.
Documents ==
    {d \in [Elements -> SUBSET MarkerClasses] :
        \A e \in Elements : d[e] \subseteq MayCarry(e)}

\* document.getElementsByClassName(className), in document order.
getElementsByClassName(classes, className) ==
    SelectSeq(DocumentOrder, LAMBDA e : className \in classes[e])

\* element.classList.add(className)
ClassListAdd(classes, element, className) ==
    [classes EXCEPT ![element] = @ \cup {className}]

\* element.classList.remove(className)
ClassListRemove(classes, element, className) ==
    [classes EXCEPT ![element] = @ \ {className}]

\* The for loop of resetCurrentElements from index i (counted from 1) on.
RECURSIVE ResetFrom(_, _)
ResetFrom(classes, i) ==
    IF i > Len(classesToRemove) THEN classes
    ELSE LET currentClass == getElementsByClassName(classes, classesToRemove[i])
         IN  ResetFrom(
                IF Len(currentClass) > 0
                THEN ClassListRemove(classes, currentClass[1], classesToRemove[i])
                ELSE classes,
                i + 1)

\* Faulty variant of ResetCurrentElements: the loop misses the first class.
ResetCurrentElementsLate(classes) == ResetFrom(classes, 2)

\* resetCurrentElements(): for (let i = 0, ...; i < iEnd; ++i)
ResetCurrentElements(classes) == ResetFrom(classes, 1)

\* maskNotEditedElements(element, isRow): the document afterwards.
MaskNotEditedElements(classes, element, isRow) ==
    LET reset == ResetCurrentElements(classes)
        current == ClassListAdd(reset, element,
                        IF isRow THEN "currentEditedRow"
                        ELSE "currentEditedCell")
    IN  ClassListAdd(current, DashboardContainer(element),
                     IF ~isRow THEN "disabledNotEditedCells"
                     ELSE "disabledNotEditedRows")

\* defined(x): x is neither undefined nor null.
defined(x) == x # Undefined

\* (x || '-9999') + 'px', as a number of pixels.
Offset(x) == IF x = Undefined \/ x = 0 THEN Sentinel ELSE x

\* Faulty variant of IsVisible: one coordinate is enough.
IsVisibleEither(x, y) == defined(x) \/ defined(y)

\* toolbar.isVisible = defined(x) && defined(y)
IsVisible(x, y) == defined(x) /\ defined(y)

\* setPosition(x, y): the toolbar afterwards.
SetPosition(x, y) ==
    [left |-> Offset(x), top |-> Offset(y), isVisible |-> IsVisible(x, y)]

ToolbarSnapshot == [classList |-> classList, position |-> position]

\* The caller starts a call on a toolbar.
ToolbarEnter ==
    /\ toolbarPc = "idle"
    /\ toolbarPc' = "called"
    /\ toolbarPre' = ToolbarSnapshot
    /\ UNCHANGED <<cleanStart, tableVars, syncVars>>

\* The page as the toolbars find it, and new EditToolbar(editMode, options)
\* for each of them.
ToolbarInit ==
    \E document \in Documents :
        /\ classList = document
        /\ cleanStart = (document = NoClasses)
        /\ position = [t \in Toolbars |-> Constructed]
        /\ toolbarCall = [op |-> "constructor"]
        /\ toolbarPre = NoToolbarSnapshot
        /\ toolbarPc = "called"
        /\ TableAtRest
        /\ SyncAtRest

\* toolbar.setPosition(x, y)
setPosition ==
    \E toolbar \in Toolbars, x \in Coordinates, y \in Coordinates :
        /\ ToolbarEnter
        /\ toolbarCall' = [op |-> "setPosition", toolbar |-> toolbar,
                           x |-> x, y |-> y]
        /\ position' = [position EXCEPT ![toolbar] = SetPosition(x, y)]
        /\ UNCHANGED classList

\* toolbar.hide()
hide ==
    \E toolbar \in Toolbars :
        /\ ToolbarEnter
        /\ toolbarCall' = [op |-> "hide", toolbar |-> toolbar]
        /\ position' = [position EXCEPT
                            ![toolbar] = SetPosition(Undefined, Undefined)]
        /\ UNCHANGED classList

\* toolbar.maskNotEditedElements(element, isRow)
maskNotEditedElements ==
    \E toolbar \in Toolbars, element \in Editables :
        LET isRow == element.tag = "row"
        IN  /\ ToolbarEnter
            /\ toolbarCall' = [op |-> "maskNotEditedElements",
                               toolbar |-> toolbar, element |-> element,
                               isRow |-> isRow]
            /\ classList' = MaskNotEditedElements(classList, element, isRow)
            /\ UNCHANGED position

\* toolbar.resetCurrentElements()
resetCurrentElements ==
    \E toolbar \in Toolbars :
        /\ ToolbarEnter
        /\ toolbarCall' = [op |-> "resetCurrentElements", toolbar |-> toolbar]
        /\ classList' = ResetCurrentElements(classList)
        /\ UNCHANGED position

\* The call is over: the caller drops what it knew about it.
ToolbarReturn ==
    /\ toolbarPc = "called"
    /\ toolbarPc' = "idle"
    /\ toolbarCall' = NoCall
    /\ toolbarPre' = NoToolbarSnapshot
    /\ UNCHANGED <<classList, cleanStart, position, tableVars, syncVars>>

ToolbarNext ==
    \/ setPosition
    \/ hide
    \/ maskNotEditedElements
    \/ resetCurrentElements
    \/ ToolbarReturn

ToolbarSpec == ToolbarInit /\ [][ToolbarNext]_vars

(* ------------------------------ properties ---------------------------- *)

\* A call of the given method has just ended.
Called(op) == pc = "called" /\ call.op = op

\* The largest length among the columns of a collection.
RECURSIVE MaxLength(_)
MaxLength(collection) ==
    IF collection = <<>> THEN 0
    ELSE Max(Len(Head(collection).value), MaxLength(Tail(collection)))

\* The cell of row j of a column, read from the array's elements.
RowCell(cols, name, j) ==
    IF name \in DOMAIN cols /\ j >= 0 /\ j < Len(cols[name].cells)
    THEN cols[name].cells[j + 1]
    ELSE Absent

\* The indexes a column can be read at.
ReadIndexes == RowIndexes \cup 0..(MaxLen + MaxIndex + MaxCalls + 1)

\* C1: after setColumns with a collection of one or more columns, rowCount is
\* the largest length among the supplied columns.
C1_RowCountIsMaxLength ==
    (Called("setColumns") /\ call.collection # <<>>)
        => rowCount = MaxLength(call.collection)

\* C2: in every state every column of the table is exactly rowCount long.
C2_ColumnsHaveRowCountLength ==
    \A name \in DOMAIN columns : Len(columns[name].cells) = rowCount

\* C3: after setColumns, with or without a rowIndex, every named column reads
\* back as the supplied values and nothing else: no earlier cell survives at
\* any index.
C3_ColumnsReplacedWholesale ==
    Called("setColumns") =>
        \A k \in 1..Len(call.collection) :
            LET e == call.collection[k]
            IN  \A i \in ReadIndexes :
                    CellAt(columns, e.name, i) =
                        IF i >= 0 /\ i < Len(e.value) THEN e.value[i + 1]
                        ELSE Absent

\* C4: setRow without insert at an index at or beyond rowCount sets rowCount
\* to index + 1 and changes no cell of the rows the table had.
C4_OverwriteBeyondGrows ==
    (Called("setRow") /\ ~call.insert /\ call.rowIndex >= pre.rowCount) =>
        /\ thrown = "none"
        /\ rowCount = call.rowIndex + 1
        /\ \A name \in Names : \A j \in 0..(pre.rowCount - 1) :
                RowCell(columns, name, j) = RowCell(pre.columns, name, j)

C4_Witness ==
    /\ Called("setRow") /\ ~call.insert /\ call.index # Undefined
    /\ call.rowIndex >= pre.rowCount
    /\ Len(call.row) = 2
    /\ \E name \in DOMAIN pre.columns : RowCell(pre.columns, name, 0) # Absent
    /\ \E k \in 1..2 : call.row[k].name \notin DOMAIN pre.columns
    /\ thrown = "none"

\* C5: setRow with insert moves, in every column the row names and the table
\* had, the cell of each row j >= index to row j + 1 and leaves the rows
\* below index as they were.
C5_InsertShiftsRows ==
    (Called("setRow") /\ call.insert /\ thrown = "none") =>
        \A k \in 1..Len(call.row) :
            call.row[k].name \in DOMAIN pre.columns =>
                \A j \in 0..(pre.rowCount - 1) :
                    LET name == call.row[k].name
                        was == RowCell(pre.columns, name, j)
                    IN  IF j >= call.rowIndex
                        THEN RowCell(columns, name, j + 1) = was
                        ELSE RowCell(columns, name, j) = was

\* C6: setRow with neither index nor insert appends: the values land in row
\* rowCount, rowCount grows by one and the earlier cells stay.
C6_DefaultIndexAppends ==
    (Called("setRow") /\ call.index = Undefined /\ ~call.insert) =>
        /\ thrown = "none"
        /\ rowCount = pre.rowCount + 1
        /\ \A k \in 1..Len(call.row) :
                /\ RowCell(columns, call.row[k].name, pre.rowCount)
                        = call.row[k].value
                /\ \A j \in 0..(pre.rowCount - 1) :
                        RowCell(columns, call.row[k].name, j)
                            = RowCell(pre.columns, call.row[k].name, j)

C6_Witness ==
    /\ Called("setRow") /\ call.index = Undefined /\ ~call.insert
    /\ Len(call.row) = 2
    /\ pre.rowCount >= 1
    /\ \A k \in 1..2 : RowCell(pre.columns, call.row[k].name, 0) # Absent
    /\ rowCount = pre.rowCount + 1

\* C7: getRow returns, in the order of the requested names (all names when
\* none are given), the cell of the row in each column, and undefined for an
\* unknown column or a row outside the table; it neither fails nor changes
\* the table.
C7_GetRowReadsCells ==
    Called("getRow") =>
        LET names == IF call.given THEN call.columnNames ELSE pre.columnKeys
        IN  /\ thrown = "none"
            /\ Snapshot = pre
            /\ Len(result) = Len(names)
            /\ \A k \in 1..Len(names) :
                    result[k] =
                        IF call.rowIndex >= 0 /\ call.rowIndex < rowCount
                        THEN RowCell(columns, names[k], call.rowIndex)
                        ELSE Absent

\* C8: a silent setColumns fires nothing and keeps versionTag; any other
\* setColumns fires afterSetColumns once and changes versionTag.
C8_SilentSetColumns ==
    Called("setColumns") =>
        IF call.silent
        THEN events = <<>> /\ versionTag = pre.versionTag
        ELSE /\ Len(events) = 1
             /\ events[1].type = "afterSetColumns"
             /\ versionTag # pre.versionTag

C8_Witness ==
    /\ Called("setColumns") /\ ~call.silent
    /\ pre.versionTag # UniqueKey(0)
    /\ call.collection # <<>>
    /\ versionTag # pre.versionTag

\* C9: every setColumn, setColumns and setRow call that is not silent changes
\* versionTag and fires its event once, afterSetRows for setRow; every silent
\* one does neither.
C9_TagFollowsSilent ==
    (pc = "called" /\ call.op \in {"setColumn", "setColumns", "setRow"}) =>
        IF call.silent
        THEN events = <<>> /\ versionTag = pre.versionTag
        ELSE /\ Len(events) = 1
             /\ events[1].type =
                    (IF call.op = "setRow" THEN "afterSetRows"
                     ELSE "afterSetColumns")
             /\ versionTag # pre.versionTag

\* C10: no call ends in a thrown error.
C10_NothingThrows == thrown = "none"

\* The names of the columns a collection or a row object holds.
NamesOf(entries) == {entries[k].name : k \in 1..Len(entries)}

\* C19: after setRow(row, i, insert) with i >= 0, for either value of insert,
\* getRow(i, names of row) returns the values of row: the cell of row i of
\* every named column is the value supplied for it.
C19_SetRowThenGetRow ==
    (Called("setRow") /\ call.rowIndex >= 0) =>
        /\ thrown = "none"
        /\ \A k \in 1..Len(call.row) :
                CellAt(columns, call.row[k].name, call.rowIndex)
                    = call.row[k].value

\* C20: setColumns and setColumn keep every cell of the columns the call does
\* not name: a cell such a column held is still there, with its value.
C20_UnnamedColumnsKept ==
    (pc = "called" /\ call.op \in {"setColumns", "setColumn"}) =>
        \A name \in DOMAIN pre.columns \ NamesOf(call.collection) :
            /\ name \in DOMAIN columns
            /\ \A j \in 0..(Len(pre.columns[name].cells) - 1) :
                    RowCell(pre.columns, name, j) # Absent =>
                        RowCell(columns, name, j) = RowCell(pre.columns, name, j)

\* C21: setRow with insert at an index >= 0 keeps the rows the table had as
\* tuples over all its columns, named in the row object or not: the row that
\* was at j < index is read at j, the row that was at j >= index at j + 1.
C21_InsertKeepsRowTuples ==
    (Called("setRow") /\ call.insert /\ call.rowIndex >= 0) =>
        \A j \in 0..(pre.rowCount - 1) :
            LET to == IF j >= call.rowIndex THEN j + 1 ELSE j
            IN  \A k \in 1..Len(pre.columnKeys) :
                    CellAt(columns, pre.columnKeys[k], to)
                        = CellAt(pre.columns, pre.columnKeys[k], j)

\* C25: the listener of a setColumns or setRow call that is not silent sees
\* a versionTag that differs from the tag before the call and is the tag the
\* table keeps when the call has ended.
C25_ListenerSeesNewTag ==
    (pc = "called" /\ call.op \in {"setColumn", "setColumns", "setRow"}) =>
        \A k \in 1..Len(events) :
            /\ events[k].tag # pre.versionTag
            /\ events[k].tag = versionTag

(* --------------------------- properties of Sync ----------------------- *)

\* A call of the given method on the Sync has just ended.
SyncCalled(op) == syncPc = "called" /\ syncCall.op = op

\* The registry of the handlers or of the emitters.
RegistryOf(kind, handlers, emitters) ==
    IF kind = "handler" THEN handlers ELSE emitters

\* What the last call did, of one sort, with instances of a kind and an id.
Done(event, kind, id) ==
    {e \in syncLog : /\ e.event = event
                     /\ e.instance.kind = kind
                     /\ e.instance.id = id}

\* C11: after stop() both registries are empty, isRegisteredHandler and
\* isRegisteredEmitter are false for every id, remove() was invoked on every
\* handler and emitter registered when stop() began, and isSyncing is false.
C11_StopClearsRegistries ==
    SyncCalled("stop") =>
        /\ syncThrown = "none"
        /\ registeredSyncHandlers = NoRegistry
        /\ registeredSyncEmitters = NoRegistry
        /\ \A id \in SyncIds :
                /\ ~isRegisteredHandler(registeredSyncHandlers, id)
                /\ ~isRegisteredEmitter(registeredSyncEmitters, id)
        /\ \A instance \in Registered(syncPre.handlers)
                                \cup Registered(syncPre.emitters) :
                /\ Event("remove", "", instance) \in syncLog
                /\ instance \notin attached
        /\ ~isSyncing

C11_Witness ==
    /\ SyncCalled("stop")
    /\ syncPre.isSyncing
    /\ DOMAIN syncPre.handlers = SyncIds
    /\ syncPre.emitters # NoRegistry
    /\ \E instance \in Registered(syncPre.handlers) :
            instance \notin syncPre.attached
    /\ \E instance \in Registered(syncPre.handlers) :
            instance \in syncPre.attached
    /\ registeredSyncHandlers = NoRegistry

\* C12: when several entries of one start() resolve to a handler, or to an
\* emitter, of the same id, one instance is registered under the id: create
\* is invoked on the first of them, once, if the id was free, and on none of
\* them if it was taken, and the registered instance is not replaced.
C12_OneInstancePerId ==
    SyncCalled("start") =>
        \A kind \in {"handler", "emitter"}, id \in SyncIds :
            LET before == RegistryOf(kind, syncPre.handlers, syncPre.emitters)
                after == RegistryOf(kind, registeredSyncHandlers,
                                    registeredSyncEmitters)
                made == Done("new", kind, id)
                created == Done("create", kind, id)
            IN  Cardinality(made) >= 2 =>
                    /\ id \in DOMAIN after
                    /\ IF id \in DOMAIN before
                       THEN created = {} /\ after[id] = before[id]
                       ELSE /\ Cardinality(created) = 1
                            /\ \A e \in created :
                                /\ after[id] = e.instance
                                /\ \A m \in made : e.instance.n <= m.instance.n

C12_Witness ==
    /\ SyncCalled("start")
    /\ syncThrown = "none"
    /\ Cardinality(Done("new", "handler", "x")) = 2
    /\ Cardinality(Done("create", "handler", "x")) = 1
    /\ Cardinality(Done("new", "emitter", "y")) = 2
    /\ Cardinality(Done("create", "emitter", "y")) = 1

\* C13: start() on a Sync that is syncing, its configuration unchanged, does
\* not fail, invokes no create(), leaves both registries with the instances
\* they held and leaves isSyncing true.
C13_RestartChangesNothing ==
    (SyncCalled("start") /\ syncPre.isSyncing) =>
        /\ syncThrown = "none"
        /\ \A e \in syncLog : e.event = "new"
        /\ registeredSyncHandlers = syncPre.handlers
        /\ registeredSyncEmitters = syncPre.emitters
        /\ attached = syncPre.attached
        /\ isSyncing

C13_Witness ==
    /\ SyncCalled("start") /\ syncPre.isSyncing
    /\ syncPre.handlers # NoRegistry
    /\ syncPre.emitters # NoRegistry
    /\ \E e \in syncLog : e.instance.kind = "handler"
    /\ \E e \in syncLog : e.instance.kind = "emitter"
    /\ isSyncing

C15_AttachFollowsConfig ==
    SyncCalled("start") =>
        \A k \in 1..Len(syncConfig), kind \in {"handler", "emitter"} :
            LET key == syncConfig[k].id
                half == Half(syncConfig[k].entry, kind)
                did == {e \in syncLog : e.key = key /\ e.instance.kind = kind}
                made == {e \in did : e.event = "new"}
            IN  IF half.type = "falsy" THEN did = {}
                ELSE /\ syncThrown = "none" => Cardinality(made) = 1
                     /\ Cardinality(made) <= 1
                     /\ \A e \in did :
                            /\ Event("new", key, e.instance) \in syncLog
                            /\ e.instance.id =
                                IF half.type = "tuple" THEN half.id
                                ELSE Half(defaultHandlers[key], kind).id

C15_Witness ==
    /\ SyncCalled("start")
    /\ syncThrown = "none"
    /\ Len(syncConfig) = 2
    /\ syncConfig[1].entry = [emitter |-> Disabled, handler |-> Tuple("y")]
    /\ syncConfig[2].entry = [emitter |-> UseDefault, handler |-> UseDefault]
    /\ Cardinality(syncLog) = 9
    /\ "x" \in DOMAIN registeredSyncHandlers
    /\ "y" \notin DOMAIN registeredSyncEmitters

\* C22: stop() invokes remove() on every handler and emitter start() had
\* created: when stop() has ended, none is attached to the component, whatever
\* start and register calls came before.
C22_StopDetachesAll ==
    SyncCalled("stop") => attached = {}

\* C23: while isSyncing is false no handler or emitter is attached and both
\* registries are empty, also after a start() that ended in a fault.
C23_IdleMeansDetached ==
    ~isSyncing =>
        /\ attached = {}
        /\ registeredSyncHandlers = NoRegistry
        /\ registeredSyncEmitters = NoRegistry

(* ----------------------- properties of EditToolbar -------------------- *)

\* A call of the given method on a toolbar has just ended.
ToolbarCalled(op) == toolbarPc = "called" /\ toolbarCall.op = op

\* The elements that carry a class.
Carriers(className) == {e \in Elements : className \in classList[e]}

\* C16: after setPosition(x, y) isVisible is true exactly when both x and y
\* are given, and an omitted coordinate puts the container at -9999px on that
\* axis; after hide() the toolbar is as after setPosition(undefined,
\* undefined): not visible, both offsets -9999px.
C16_VisibleIffBothPresent ==
    /\ ToolbarCalled("setPosition") =>
            LET now == position[toolbarCall.toolbar]
            IN  /\ now.isVisible = (toolbarCall.x # Undefined
                                        /\ toolbarCall.y # Undefined)
                /\ toolbarCall.x = Undefined => now.left = Sentinel
                /\ toolbarCall.y = Undefined => now.top = Sentinel
    /\ ToolbarCalled("hide") =>
            position[toolbarCall.toolbar] =
                [left |-> Sentinel, top |-> Sentinel, isVisible |-> FALSE]

C16_Witness ==
    /\ ToolbarCalled("hide")
    /\ toolbarPre.position[toolbarCall.toolbar].isVisible
    /\ toolbarPre.position[toolbarCall.toolbar].left = MaxCoordinate
    /\ ~position[toolbarCall.toolbar].isVisible

\* C17: after resetCurrentElements() no element of the document carries any
\* of the four marker classes.
C17_ResetClearsDocument ==
    ToolbarCalled("resetCurrentElements") =>
        \A className \in MarkerClasses : Carriers(className) = {}

\* C18: in a document that started without marker classes each marker class
\* is carried by at most one element, and after maskNotEditedElements(element,
\* isRow) the markers present are the current-edited class of the kind on
\* the element and the disabled class of the kind on its dashboard container,
\* and no other.
C18_OneMarkedElement ==
    cleanStart =>
        /\ \A className \in MarkerClasses :
                Cardinality(Carriers(className)) <= 1
        /\ ToolbarCalled("maskNotEditedElements") =>
                \A e \in Elements :
                    classList[e] =
                        IF e = toolbarCall.element
                        THEN {IF toolbarCall.isRow THEN "currentEditedRow"
                              ELSE "currentEditedCell"}
                        ELSE IF e = DashboardContainer(toolbarCall.element)
                        THEN {IF toolbarCall.isRow THEN "disabledNotEditedRows"
                              ELSE "disabledNotEditedCells"}
                        ELSE {}

C18_Witness ==
    /\ cleanStart
    /\ ToolbarCalled("maskNotEditedElements")
    /\ toolbarCall.toolbar = 2
    /\ toolbarCall.element = [dashboard |-> 1, tag |-> "cell"]
    /\ toolbarPre.classList[[dashboard |-> 2, tag |-> "row"]]
            = {"currentEditedRow"}
    /\ toolbarPre.classList[[dashboard |-> 2, tag |-> "container"]]
            = {"disabledNotEditedRows"}
    /\ classList[[dashboard |-> 1, tag |-> "cell"]] = {"currentEditedCell"}

\* C24: whenever a toolbar is visible after setPosition(x, y), its offsets are
\* x px and y px, also for a coordinate of 0; the offset -9999px stands for
\* an omitted coordinate only.
C24_VisibleAtGivenOffsets ==
    ToolbarCalled("setPosition") =>
        LET now == position[toolbarCall.toolbar]
        IN  /\ now.isVisible =>
                    now.left = toolbarCall.x /\ now.top = toolbarCall.y
            /\ now.left = Sentinel => toolbarCall.x = Undefined
            /\ now.top = Sentinel => toolbarCall.y = Undefined

====
